---- MODULE Spec2Model ----
(***************************************************************************)
(* Flocking simulation: the uniform-grid spatial index (spatial_grid.c),   *)
(* the particle kinematics (particle.c, vector3d.c) and the native frame   *)
(* loop with its staggered neighbour cache and frame budget (main.c).      *)
(*                                                                         *)
(* Numbers.  The C code computes in float.  Here every float is a point of *)
(* an integer lattice: an operation is computed exactly and its result is  *)
(* rounded to the lattice where C rounds to a float.  (int)(a / b) is      *)
(* truncation toward zero, as in C.  In the frame loop one lattice unit is *)
(* 0.1 of the program's length unit, so 800 is written 8000; angles are in *)
(* milliradians.  The grid and wrap operators take their extents as        *)
(* arguments, as the C functions do.                                       *)
(***************************************************************************)
EXTENDS Integers, Sequences, FiniteSets, TLC

VARIABLES
    particles,          \* Particle* particles                  (main.c:42)
    spatial_grid,       \* SpatialGrid* spatial_grid            (main.c:43)
    neighbor_buffer,    \* static int neighbor_buffer[]  (spatial_grid.c query)
    neighbor_cache,     \* NeighborCache* neighbor_cache        (main.c:56)
    current_frame,      \* int current_frame                    (main.c:57)
    leader1, leader2,   \* Vector3D leader1, leader2            (main.c:44)
    leader_angle,       \* float leader_angle                   (main.c:46)
    separation_time,    \* float separation_time                (main.c:47)
    pc,                 \* where control is
    loop_i,             \* the loop variable i of update_simulation
    particles_updated,  \* int particles_updated                (main.c:172)
    over_budget,        \* elapsed > MAX_FRAME_TIME_MS at the last sample
    refreshed,          \* history: the frames in which each cache was refreshed
    processed,          \* history: the frames in which each agent was processed
    query_position,     \* arguments and result count of the last direct call
    query_radius,       \*   of spatial_grid_query_neighbors
    neighbor_count_out,
    wrap_input,         \* the position handed to the last direct particle_wrap
    current_width,      \* int current_width                  (main_wasm.c:24)
    current_height,     \* int current_height                 (main_wasm.c:25)
    frame_counter,      \* int frame_counter                  (main_wasm.c:48)
    frame_start         \* history: the agent array when the frame began

vars == << particles, spatial_grid, neighbor_buffer, neighbor_cache,
           current_frame, leader1, leader2, leader_angle, separation_time,
           pc, loop_i, particles_updated, over_budget, refreshed, processed,
           query_position, query_radius, neighbor_count_out, wrap_input,
           current_width, current_height, frame_counter, frame_start >>

----------------------------------------------------------------------------
(* Program constants *)

MAX_NEIGHBORS == 10
CACHE_NEIGHBORS_FRAMES == 2
UPDATE_GRID_EVERY_N_FRAMES == 1
LEADER_SPEED == 15                      \* 0.015f, in milliradians
SEPARATION_OSCILLATION_SPEED == 10      \* 0.01f, in milliradians

(* Bounds of the model *)

NUM_PARTICLES == 3      \* agents of the frame loop (500 in main.c)
MaxFrame == 4           \* frames the frame loop runs
WrapMargin == 2         \* how far outside the extents a wrapped position is drawn
UpdateSteps == 2        \* integration steps applied to one drawn particle
ForceMax == 1000        \* a component of an oversized force (1000 times max_force)
FlockCount == 3         \* agents of the array handed to one steering call
FlockListLen == 2       \* longest neighbour list handed to one steering call

----------------------------------------------------------------------------
(* Arithmetic *)

\* n of the program's length units, in lattice units (one unit is 0.1).
Units(n) == n * 10

\* C conversion of a float to int: toward zero.
TruncDiv(a, b) == IF a >= 0 THEN a \div b ELSE -((-a) \div b)

\* A float quotient a / b (b > 0), rounded to the nearest lattice point.
RoundDiv(a, b) ==
    IF a >= 0 THEN (2 * a + b) \div (2 * b) ELSE -((2 * (-a) + b) \div (2 * b))

\* ceilf(a / b) for a >= 0, b > 0.
CeilDiv(a, b) == (a + b - 1) \div b

RECURSIVE SqrtSearch(_, _, _)
SqrtSearch(n, lo, hi) ==
    IF lo >= hi THEN lo
    ELSE LET mid == (lo + hi + 1) \div 2
         IN  IF mid * mid <= n THEN SqrtSearch(n, mid, hi)
                               ELSE SqrtSearch(n, lo, mid - 1)

\* sqrtf(n), rounded to the nearest lattice point.
sqrtf(n) ==
    LET r == SqrtSearch(n, 0, 46340)
    IN  IF n - r * r > r THEN r + 1 ELSE r

----------------------------------------------------------------------------
(* vector3d *)

vec3_create(x, y, z) == [x |-> x, y |-> y, z |-> z]

vec3_add(v1, v2) == [x |-> v1.x + v2.x, y |-> v1.y + v2.y, z |-> v1.z + v2.z]

vec3_sub(v1, v2) == [x |-> v1.x - v2.x, y |-> v1.y - v2.y, z |-> v1.z - v2.z]

\* vec3_mult(v, n) for the float n = num / den, den > 0.
vec3_mult(v, num, den) ==
    [x |-> RoundDiv(v.x * num, den),
     y |-> RoundDiv(v.y * num, den),
     z |-> RoundDiv(v.z * num, den)]

\* vec3_div(v, n) for the float n = num / den, num >= 0, den > 0.
vec3_div(v, num, den) ==
    IF num # 0
    THEN [x |-> RoundDiv(v.x * den, num),
          y |-> RoundDiv(v.y * den, num),
          z |-> RoundDiv(v.z * den, num)]
    ELSE v

vec3_mag(v) == sqrtf(v.x * v.x + v.y * v.y + v.z * v.z)

\* vec3_normalize then vec3_mult by mag, rounded to the lattice once: a unit
\* vector has no useful image on the lattice.
vec3_set_mag(v, mag) ==
    LET m == vec3_mag(v)
    IN  IF m > 0 THEN vec3_mult(v, mag, m) ELSE vec3_mult(v, mag, 1)

vec3_limit(v, max) ==
    LET m == vec3_mag(v)
    IN  IF m > max THEN vec3_mult(v, max, m) ELSE v

vec3_sub_new(v1, v2) == vec3_create(v1.x - v2.x, v1.y - v2.y, v1.z - v2.z)

vec3_copy(v) == vec3_create(v.x, v.y, v.z)

vec3_dist_sq_inline(v1, v2) ==
    LET dx == v1.x - v2.x
        dy == v1.y - v2.y
        dz == v1.z - v2.z
    IN  dx * dx + dy * dy + dz * dz

----------------------------------------------------------------------------
(* spatial_grid *)

Uninit == "uninit"      \* the content of malloc'ed memory never written

\* Mutant: the upper bounds are not tested.
get_cell_index_NoUpperBound(grid, x, y, z) ==
    IF x < 0 \/ y < 0 \/ z < 0
    THEN -1
    ELSE x + y * grid.grid_width + z * grid.grid_width * grid.grid_height

get_cell_index(grid, x, y, z) ==
    IF \/ x < 0 \/ x >= grid.grid_width
       \/ y < 0 \/ y >= grid.grid_height
       \/ z < 0 \/ z >= grid.grid_depth
    THEN -1
    ELSE x + y * grid.grid_width + z * grid.grid_width * grid.grid_height

get_grid_coords(grid, pos) ==
    [x |-> TruncDiv(pos.x, grid.cell_size),
     y |-> TruncDiv(pos.y, grid.cell_size),
     z |-> TruncDiv(pos.z, grid.cell_size)]

\* get_grid_coords followed by get_cell_index, as both passes of the update do.
CellOfPosition(grid, pos) ==
    LET g == get_grid_coords(grid, pos)
    IN  get_cell_index(grid, g.x, g.y, g.z)

spatial_grid_create(world_width, world_height, world_depth, cell_size, max_particles) ==
    LET gw == CeilDiv(world_width, cell_size)
        gh == CeilDiv(world_height, cell_size)
        gd == CeilDiv(world_depth, cell_size)
    IN  [cell_size        |-> cell_size,
         grid_width       |-> gw,
         grid_height      |-> gh,
         grid_depth       |-> gd,
         total_cells      |-> gw * gh * gd,
         num_particles    |-> max_particles,
         particle_indices |-> [k \in 0 .. max_particles - 1 |-> Uninit],
         cell_starts      |-> [c \in 0 .. gw * gh * gd - 1 |-> Uninit],
         cell_counts      |-> [c \in 0 .. gw * gh * gd - 1 |-> Uninit]]

\* First loop of spatial_grid_update: tally the occupancy of each cell.
RECURSIVE CountPass(_, _, _, _, _)
CountPass(grid, parts, count, i, counts) ==
    IF i >= count THEN counts
    ELSE LET cell_idx == CellOfPosition(grid, parts[i].position)
         IN  CountPass(grid, parts, count, i + 1,
                       IF cell_idx >= 0
                       THEN [counts EXCEPT ![cell_idx] = @ + 1]
                       ELSE counts)

\* The first cell from c on with a positive count, or total_cells if none:
\* where the second loop next does anything.
NextOccupied(total_cells, counts, c) ==
    LET occupied == {d \in c .. total_cells - 1 : counts[d] > 0}
    IN  IF occupied = {} THEN total_cells
        ELSE CHOOSE d \in occupied : \A e \in occupied : d <= e

\* Mutant: the running offset is not advanced.
RECURSIVE OffsetPass_NoAdvance(_, _, _, _, _)
OffsetPass_NoAdvance(total_cells, counts, c, offset, starts) ==
    LET d == NextOccupied(total_cells, counts, c)
    IN  IF d >= total_cells THEN starts
        ELSE OffsetPass_NoAdvance(total_cells, counts, d + 1, offset,
                                  [starts EXCEPT ![d] = offset])

\* Second loop, over the cells in ascending order from c: the running offset
\* is written to cell_starts of each occupied cell and advanced by its count.
\* The cells with count 0, where the loop body does nothing, are stepped over
\* at once.
RECURSIVE OffsetPass(_, _, _, _, _)
OffsetPass(total_cells, counts, c, offset, starts) ==
    LET d == NextOccupied(total_cells, counts, c)
    IN  IF d >= total_cells THEN starts
        ELSE OffsetPass(total_cells, counts, d + 1, offset + counts[d],
                        [starts EXCEPT ![d] = offset])

\* Third loop: scatter the indices; st = [counts, indices].
RECURSIVE ScatterPass(_, _, _, _, _, _)
ScatterPass(grid, parts, count, starts, i, st) ==
    IF i >= count THEN st
    ELSE LET cell_idx == CellOfPosition(grid, parts[i].position)
         IN  IF cell_idx >= 0
             THEN LET idx == starts[cell_idx] + st.counts[cell_idx]
                  IN  ScatterPass(grid, parts, count, starts, i + 1,
                         [counts  |-> [st.counts EXCEPT ![cell_idx] = @ + 1],
                          indices |-> [st.indices EXCEPT ![idx] = i]])
             ELSE ScatterPass(grid, parts, count, starts, i + 1, st)

\* Mutant: cell_starts is cleared to 0 instead of being set to -1.
spatial_grid_update_ZeroSentinel(grid, parts, count) ==
    LET cells  == 0 .. grid.total_cells - 1
        zeros  == [c \in cells |-> 0]
        tally  == CountPass(grid, parts, count, 0, zeros)
        starts == OffsetPass(grid.total_cells, tally, 0, 0, zeros)
        st     == ScatterPass(grid, parts, count, starts, 0,
                              [counts |-> zeros, indices |-> grid.particle_indices])
    IN  [grid EXCEPT !.cell_starts      = starts,
                     !.cell_counts      = st.counts,
                     !.particle_indices = st.indices]

spatial_grid_update(grid, parts, count) ==
    LET cells  == 0 .. grid.total_cells - 1
        zeros  == [c \in cells |-> 0]
        minus  == [c \in cells |-> -1]
        tally  == CountPass(grid, parts, count, 0, zeros)
        starts == OffsetPass(grid.total_cells, tally, 0, 0, minus)
        st     == ScatterPass(grid, parts, count, starts, 0,
                              [counts |-> zeros, indices |-> grid.particle_indices])
    IN  [grid EXCEPT !.cell_starts      = starts,
                     !.cell_counts      = st.counts,
                     !.particle_indices = st.indices]

\* The 27 cell offsets in the order of the three nested loops: dz outermost,
\* then dy, then dx, each from -cell_radius to +cell_radius.
\* Mutant: dx runs downward, from +cell_radius to -cell_radius.
CellOffset_DescendingX(k) ==
    [dz |-> (k \div 9) - 1, dy |-> ((k \div 3) % 3) - 1, dx |-> 1 - (k % 3)]

\* Mutant: dx runs from 0 to 2 * cell_radius.
CellOffset_ForwardX(k) ==
    [dz |-> (k \div 9) - 1, dy |-> ((k \div 3) % 3) - 1, dx |-> k % 3]

CellOffset(k) ==
    [dz |-> (k \div 9) - 1, dy |-> ((k \div 3) % 3) - 1, dx |-> (k % 3) - 1]

\* Mutant: the innermost loop does not test neighbor_count < MAX_NEIGHBORS.
RECURSIVE ScanRun_NoCap(_, _, _, _, _, _, _, _)
ScanRun_NoCap(grid, parts, position, radius_sq, start, count, i, res) ==
    IF ~(i < count) THEN res
    ELSE LET particle_idx == grid.particle_indices[start + i]
             dist_sq == vec3_dist_sq_inline(position, parts[particle_idx].position)
         IN  ScanRun_NoCap(grid, parts, position, radius_sq, start, count, i + 1,
                     IF dist_sq < radius_sq
                     THEN [buffer |-> [k \in DOMAIN res.buffer \cup {res.count} |->
                                         IF k = res.count THEN particle_idx ELSE res.buffer[k]],
                           count  |-> res.count + 1]
                     ELSE res)

\* Innermost loop: the run of one cell; res = [buffer, count].
RECURSIVE ScanRun(_, _, _, _, _, _, _, _)
ScanRun(grid, parts, position, radius_sq, start, count, i, res) ==
    IF ~(i < count /\ res.count < MAX_NEIGHBORS) THEN res
    ELSE LET particle_idx == grid.particle_indices[start + i]
             dist_sq == vec3_dist_sq_inline(position, parts[particle_idx].position)
         IN  ScanRun(grid, parts, position, radius_sq, start, count, i + 1,
                     IF dist_sq < radius_sq
                     THEN [buffer |-> [res.buffer EXCEPT ![res.count] = particle_idx],
                           count  |-> res.count + 1]
                     ELSE res)

\* The three nested cell loops, flattened to k = 0 .. 26.  Every loop
\* condition carries neighbor_count < MAX_NEIGHBORS, so a full buffer ends
\* all three.
RECURSIVE ScanCells(_, _, _, _, _, _, _)
ScanCells(grid, parts, position, radius_sq, c, k, res) ==
    IF ~(k < 27 /\ res.count < MAX_NEIGHBORS) THEN res
    ELSE LET o == CellOffset(k)
             cell_idx == get_cell_index(grid, c.x + o.dx, c.y + o.dy, c.z + o.dz)
         IN  IF cell_idx < 0
             THEN ScanCells(grid, parts, position, radius_sq, c, k + 1, res)
             ELSE IF grid.cell_starts[cell_idx] < 0
                  THEN ScanCells(grid, parts, position, radius_sq, c, k + 1, res)
                  ELSE ScanCells(grid, parts, position, radius_sq, c, k + 1,
                                 ScanRun(grid, parts, position, radius_sq,
                                         grid.cell_starts[cell_idx],
                                         grid.cell_counts[cell_idx], 0, res))

\* Mutant: the squared distance is compared with the radius, not its square.
spatial_grid_query_neighbors_RadiusNotSquared(grid, parts, position, radius, buffer) ==
    ScanCells(grid, parts, position, radius,
              get_grid_coords(grid, position), 0,
              [buffer |-> buffer, count |-> 0])

\* Returns [buffer, count]: the static buffer after the call (entries from
\* count on keep what an earlier call left) and *neighbor_count_out.
spatial_grid_query_neighbors(grid, parts, position, radius, buffer) ==
    ScanCells(grid, parts, position, radius * radius,
              get_grid_coords(grid, position), 0,
              [buffer |-> buffer, count |-> 0])

----------------------------------------------------------------------------
(* particle *)

\* rnd is the sample vec3_random3d() returned: a vector of length 1.0.
particle_create(x, y, z, rnd) ==
    [position     |-> vec3_create(x, y, z),
     velocity     |-> vec3_mult(rnd, 2, 1),
     acceleration |-> vec3_create(0, 0, 0),
     max_speed    |-> Units(4),
     max_force    |-> 1]                    \* 0.1f

particle_seek(p, target) ==
    LET desired == vec3_set_mag(vec3_sub_new(target, p.position), p.max_speed)
        steer   == vec3_sub_new(desired, p.velocity)
    IN  vec3_limit(steer, p.max_force)

\* Mutant: the perception radius is not tested.
Contributes_NoRadius(dist_sq, perception_radius_sq) == dist_sq * 10 > 1

\* Mutant: the minimum distance is not tested.
Contributes_NoMinimum(dist_sq, perception_radius_sq) == dist_sq < perception_radius_sq

\* The condition under which a cached neighbour contributes:
\* dist_sq < perception_radius_sq && dist_sq > 0.001f.  dist_sq is in squared
\* lattice units, of which 0.001 is a tenth.
Contributes(dist_sq, perception_radius_sq) ==
    dist_sq < perception_radius_sq /\ dist_sq * 10 > 1

\* The loop over the neighbour list; a = [separation, alignment, cohesion,
\* sep_count, align_count, coh_count].
RECURSIVE FlockLoop(_, _, _, _, _, _, _, _)
FlockLoop(p, particle_idx, parts, neighbors, neighbor_count, perception_radius_sq, i, a) ==
    IF i >= neighbor_count THEN a
    ELSE LET neighbor_idx == neighbors[i]
         IN  IF neighbor_idx = particle_idx
             THEN FlockLoop(p, particle_idx, parts, neighbors, neighbor_count,
                            perception_radius_sq, i + 1, a)
             ELSE LET other   == parts[neighbor_idx]
                      dist_sq == vec3_dist_sq_inline(p.position, other.position)
                  IN  IF Contributes(dist_sq, perception_radius_sq)
                      THEN LET diff == vec3_div(vec3_sub_new(p.position, other.position),
                                                dist_sq, Units(1) * Units(1))
                           IN  FlockLoop(p, particle_idx, parts, neighbors, neighbor_count,
                                         perception_radius_sq, i + 1,
                                  [separation  |-> vec3_add(a.separation, diff),
                                   sep_count   |-> a.sep_count + 1,
                                   alignment   |-> vec3_add(a.alignment, other.velocity),
                                   align_count |-> a.align_count + 1,
                                   cohesion    |-> vec3_add(a.cohesion, other.position),
                                   coh_count   |-> a.coh_count + 1])
                      ELSE FlockLoop(p, particle_idx, parts, neighbors, neighbor_count,
                                     perception_radius_sq, i + 1, a)

\* The four force vectors of particle_flock_optimized, before they are added
\* to the acceleration.  separation_weight is in thousandths.
FlockForces(p, particle_idx, parts, neighbors, neighbor_count, l1, l2, perception_radius, separation_weight) ==
    LET zero == vec3_create(0, 0, 0)
        a == FlockLoop(p, particle_idx, parts, neighbors, neighbor_count,
                       perception_radius * perception_radius, 0,
                       [separation |-> zero, alignment |-> zero, cohesion |-> zero,
                        sep_count |-> 0, align_count |-> 0, coh_count |-> 0])
        separation ==
            IF a.sep_count > 0
            THEN vec3_mult(
                   vec3_limit(
                     vec3_sub(vec3_set_mag(vec3_div(a.separation, a.sep_count, 1),
                                           p.max_speed),
                              p.velocity),
                     p.max_force),
                   separation_weight, 1000)
            ELSE a.separation
        alignment ==
            IF a.align_count > 0
            THEN vec3_limit(
                   vec3_sub(vec3_set_mag(vec3_div(a.alignment, a.align_count, 1),
                                         p.max_speed),
                            p.velocity),
                   p.max_force)
            ELSE a.alignment
        cohesion ==
            IF a.coh_count > 0
            THEN vec3_limit(
                   vec3_sub(vec3_set_mag(vec3_sub(vec3_div(a.cohesion, a.coh_count, 1),
                                                  p.position),
                                         p.max_speed),
                            p.velocity),
                   p.max_force)
            ELSE a.cohesion
        dist1_sq == vec3_dist_sq_inline(p.position, l1)
        dist2_sq == vec3_dist_sq_inline(p.position, l2)
        closest_leader == IF dist1_sq < dist2_sq THEN l1 ELSE l2
        leader_attraction == vec3_mult(particle_seek(p, closest_leader), 1, 2)
    IN  [separation |-> separation, alignment |-> alignment, cohesion |-> cohesion,
         leader_attraction |-> leader_attraction,
         sep_count |-> a.sep_count, align_count |-> a.align_count,
         coh_count |-> a.coh_count]

particle_flock_optimized(p, particle_idx, parts, neighbors, neighbor_count, l1, l2, perception_radius, separation_weight) ==
    LET f == FlockForces(p, particle_idx, parts, neighbors, neighbor_count,
                         l1, l2, perception_radius, separation_weight)
    IN  [p EXCEPT !.acceleration =
            vec3_add(vec3_add(vec3_add(vec3_add(@, f.separation), f.alignment),
                              f.cohesion),
                     f.leader_attraction)]

\* Mutant: the acceleration is not reset.
particle_update_NoReset(p) ==
    LET velocity == vec3_limit(vec3_add(p.velocity, p.acceleration), p.max_speed)
    IN  [p EXCEPT !.velocity = velocity,
                  !.position = vec3_add(p.position, velocity)]

\* Mutant: the velocity is integrated without the clamp to max_speed.
particle_update_NoLimit(p) ==
    LET velocity == vec3_add(p.velocity, p.acceleration)
    IN  [p EXCEPT !.velocity     = velocity,
                  !.position     = vec3_add(p.position, velocity),
                  !.acceleration = vec3_mult(p.acceleration, 0, 1)]

particle_update(p) ==
    LET velocity == vec3_limit(vec3_add(p.velocity, p.acceleration), p.max_speed)
    IN  [p EXCEPT !.velocity     = velocity,
                  !.position     = vec3_add(p.position, velocity),
                  !.acceleration = vec3_mult(p.acceleration, 0, 1)]

\* Mutant: a component past the extent keeps its overshoot.
WrapAxis_KeepOvershoot(c, extent) ==
    LET c1 == IF c > extent THEN c - extent ELSE c
    IN  IF c1 < 0 THEN extent ELSE c1

\* Mutant: a component equal to the extent is reset to 0 as well.
WrapAxis_ExtentToZero(c, extent) ==
    LET c1 == IF c >= extent THEN 0 ELSE c
    IN  IF c1 < 0 THEN extent ELSE c1

\* One axis of particle_wrap: the two tests in the order of the code.
WrapAxis(c, extent) ==
    LET c1 == IF c > extent THEN 0 ELSE c
    IN  IF c1 < 0 THEN extent ELSE c1

particle_wrap(p, width, height, depth) ==
    [p EXCEPT !.position = [x |-> WrapAxis(p.position.x, width),
                            y |-> WrapAxis(p.position.y, height),
                            z |-> WrapAxis(p.position.z, depth)]]

----------------------------------------------------------------------------
(* The spatial index on its own: an agent array is drawn, the grid is built *)
(* over it by spatial_grid_update and queried once.                         *)

GridCount == 4          \* agents of a drawn array
ClusterExtra == 1       \* agents of a clustered array beyond MAX_NEIGHBORS

\* The world of the grid: 100 x 100 x 100 with cells of 50.
GridWorld == [width |-> Units(100), height |-> Units(100), depth |-> Units(100), cell_size |-> Units(50)]

PointA == vec3_create(Units(10), Units(10), Units(10))
PointB == vec3_create(Units(15), Units(15), Units(15))
PointC == vec3_create(Units(90), Units(90), Units(90))
PointD == vec3_create(Units(100), Units(15), Units(15))    \* x at the extent
PointE == vec3_create(Units(55), Units(10), Units(10))

GridPoints == {PointA, PointB, PointC, PointD, PointE}

ClusterPoints == {PointA, PointE}

GridRadii == {Units(10), Units(50), Units(60)}

ParticleAt(pos) == particle_create(pos.x, pos.y, pos.z, vec3_create(Units(1), 0, 0))

GridArrays ==
    [0 .. GridCount - 1 -> {ParticleAt(pos) : pos \in GridPoints}]
    \cup [0 .. MAX_NEIGHBORS + ClusterExtra - 1 -> {ParticleAt(pos) : pos \in ClusterPoints}]

\* The count argument that goes with an agent array.
Count(parts) == Cardinality(DOMAIN parts)

ZeroVec == vec3_create(0, 0, 0)

\* The variables of the frame loop, at rest.
LoopAtRest ==
    /\ neighbor_cache = << >>
    /\ current_frame = 0
    /\ leader1 = ZeroVec
    /\ leader2 = ZeroVec
    /\ leader_angle = 0
    /\ separation_time = 0
    /\ loop_i = 0
    /\ particles_updated = 0
    /\ over_budget = FALSE
    /\ refreshed = << >>
    /\ processed = << >>
    /\ current_width = 0
    /\ current_height = 0
    /\ frame_counter = 0
    /\ frame_start = << >>

loopVars == << neighbor_cache, current_frame, leader1, leader2, leader_angle, separation_time, loop_i, particles_updated, over_budget, refreshed, processed, current_width, current_height, frame_counter, frame_start >>

GridInit ==
    /\ pc = "grid_created"
    /\ particles \in GridArrays
    /\ spatial_grid = spatial_grid_create(GridWorld.width, GridWorld.height, GridWorld.depth, GridWorld.cell_size, Count(particles))
    /\ neighbor_buffer = [k \in 0 .. MAX_NEIGHBORS - 1 |-> 0]
    /\ query_position = ZeroVec
    /\ query_radius = 0
    /\ neighbor_count_out = 0
    /\ wrap_input = ZeroVec
    /\ LoopAtRest

GridBuild ==
    /\ pc = "grid_created"
    /\ spatial_grid' = spatial_grid_update(spatial_grid, particles, Count(particles))
    /\ pc' = "grid_built"
    /\ UNCHANGED << particles, neighbor_buffer, query_position, query_radius, neighbor_count_out, wrap_input, loopVars >>

GridQuery ==
    /\ pc = "grid_built"
    /\ \E position \in GridPoints, radius \in GridRadii :
         LET res == spatial_grid_query_neighbors(spatial_grid, particles, position, radius, neighbor_buffer)
         IN  /\ neighbor_buffer' = res.buffer
             /\ neighbor_count_out' = res.count
             /\ query_position' = position
             /\ query_radius' = radius
    /\ pc' = "grid_queried"
    /\ UNCHANGED << particles, spatial_grid, wrap_input, loopVars >>

GridNext == GridBuild \/ GridQuery

GridSpec == GridInit /\ [][GridNext]_vars

----------------------------------------------------------------------------
(* Reference notions for the spatial index, stated without the grid code.   *)

\* The linear scan: the agents at distance less than radius from position.
LinearScan(parts, position, radius) ==
    {i \in DOMAIN parts : vec3_dist_sq_inline(position, parts[i].position) < radius * radius}

\* The position lies in the box the grid covers.
InGridBounds(grid, pos) ==
    /\ 0 <= pos.x /\ pos.x < grid.grid_width * grid.cell_size
    /\ 0 <= pos.y /\ pos.y < grid.grid_height * grid.cell_size
    /\ 0 <= pos.z /\ pos.z < grid.grid_depth * grid.cell_size

\* The position maps to cell c under integer division by cell_size.
MapsToCell(grid, pos, c) ==
    /\ pos.x \div grid.cell_size = c % grid.grid_width
    /\ pos.y \div grid.cell_size = (c \div grid.grid_width) % grid.grid_height
    /\ pos.z \div grid.cell_size = c \div (grid.grid_width * grid.grid_height)

Cells(grid) == 0 .. grid.total_cells - 1

RECURSIVE SumCounts(_, _)
SumCounts(grid, c) ==
    IF c >= grid.total_cells THEN 0 ELSE grid.cell_counts[c] + SumCounts(grid, c + 1)

\* The agent indices stored in the run of cell c.
Run(grid, c) ==
    {grid.particle_indices[grid.cell_starts[c] + k] : k \in 0 .. grid.cell_counts[c] - 1}

\* The places <<cell, k>> of all runs that hold agent index i.
PlacesOf(grid, i) ==
    {pl \in UNION {{<<c, k>> : k \in 0 .. grid.cell_counts[c] - 1} : c \in Cells(grid)} :
        grid.particle_indices[grid.cell_starts[pl[1]] + pl[2]] = i}

\* The index set the last direct query returned.
Returned == {neighbor_buffer[k] : k \in 0 .. neighbor_count_out - 1}

GridIsBuilt == pc \in {"grid_built", "grid_queried"}

\* C3: spatial_grid_query_neighbors never returns more than MAX_NEIGHBORS
\* entries, whatever the agent array, the query point and the radius.
C3_QueryWithinCapacity ==
    pc = "grid_queried" => neighbor_count_out <= MAX_NEIGHBORS

\* A query that filled the buffer although more agents, all at one point, were
\* within the radius.
C3_Witness ==
    /\ pc = "grid_queried"
    /\ \A i \in DOMAIN particles : particles[i].position = PointA
    /\ Cardinality(LinearScan(particles, query_position, query_radius)) > MAX_NEIGHBORS
    /\ neighbor_count_out = MAX_NEIGHBORS

\* C4: after spatial_grid_update the cell counts sum to the number of agents
\* whose position lies within the grid bounds, and each such agent index is
\* at exactly one place of one run; the other agents are at none.
C4_GridOccupancy ==
    GridIsBuilt =>
        LET inside == {i \in DOMAIN particles : InGridBounds(spatial_grid, particles[i].position)}
        IN  /\ SumCounts(spatial_grid, 0) = Cardinality(inside)
            /\ \A i \in DOMAIN particles :
                 Cardinality(PlacesOf(spatial_grid, i)) = IF i \in inside THEN 1 ELSE 0

\* A built grid over an array with an agent outside the grid and agents in
\* two different cells.
C4_Witness ==
    /\ pc = "grid_built"
    /\ \E i \in DOMAIN particles : ~InGridBounds(spatial_grid, particles[i].position)
    /\ Cardinality({c \in Cells(spatial_grid) : spatial_grid.cell_counts[c] > 0}) >= 2

\* C5: after spatial_grid_update the run of every occupied cell holds exactly
\* the agents whose position maps to that cell under integer division by
\* cell_size, each once.
C5_CellMembership ==
    GridIsBuilt =>
        \A c \in Cells(spatial_grid) :
            spatial_grid.cell_counts[c] > 0 =>
                LET members == {i \in DOMAIN particles : MapsToCell(spatial_grid, particles[i].position, c)}
                IN  /\ Run(spatial_grid, c) = members
                    /\ spatial_grid.cell_counts[c] = Cardinality(members)

\* A built grid with a cell holding two agents and another occupied cell
\* before it.
C5_Witness ==
    /\ pc = "grid_built"
    /\ \E c \in Cells(spatial_grid) :
         /\ spatial_grid.cell_counts[c] >= 2
         /\ spatial_grid.cell_starts[c] > 0

QueryPreconditions ==
    /\ pc = "grid_queried"
    /\ spatial_grid.cell_size >= query_radius
    /\ MAX_NEIGHBORS >= Cardinality(LinearScan(particles, query_position, query_radius))

\* C6 as stated: with cell_size >= radius and MAX_NEIGHBORS >= the number of
\* agents within the radius, the query returns the set of the linear scan
\* over all agents.
C6_QueryEqualsLinearScan ==
    QueryPreconditions => Returned = LinearScan(particles, query_position, query_radius)

\* C6, amended: under the same conditions the query returns, each once, the
\* agents of the linear scan whose position lies within the grid bounds.
C6_QueryEqualsLinearScanInGrid ==
    QueryPreconditions =>
        LET expected == {i \in LinearScan(particles, query_position, query_radius) :
                            InGridBounds(spatial_grid, particles[i].position)}
        IN  /\ Returned = expected
            /\ neighbor_count_out = Cardinality(expected)

\* A query that returned agents from two cells and left out an agent within
\* the radius that lies outside the grid.
C6_Witness ==
    /\ QueryPreconditions
    /\ \E i \in LinearScan(particles, query_position, query_radius) :
         ~InGridBounds(spatial_grid, particles[i].position)
    /\ \E i, j \in Returned :
         CellOfPosition(spatial_grid, particles[i].position) # CellOfPosition(spatial_grid, particles[j].position)

\* The scenario: 4 agents in the 100 x 100 x 100 world with cells of 50, agent
\* 0 at (10,10,10), agent 1 at (15,15,15), agents 2 and 3 at (90,90,90), the
\* grid built and queried from (10,10,10) with radius 10.
Scenario ==
    /\ pc = "grid_queried"
    /\ DOMAIN particles = 0 .. 3
    /\ particles[0].position = PointA
    /\ particles[1].position = PointB
    /\ particles[2].position = PointC
    /\ particles[3].position = PointC
    /\ query_position = PointA
    /\ query_radius = Units(10)

\* C7 as stated: in the scenario the query returns the index set {1}.
C7_ScenarioReturnsOne == Scenario => Returned = {1}

\* C7, amended: in the scenario the query returns agents 0 and 1, in this
\* order: agent 0, at distance 0 from the query point, is returned too.
C7_ScenarioReturnsZeroAndOne ==
    Scenario => /\ neighbor_count_out = 2
                /\ neighbor_buffer[0] = 0
                /\ neighbor_buffer[1] = 1

C7_Witness == Scenario

----------------------------------------------------------------------------
(* The native frame loop: init_simulation and update_simulation of main.c.  *)
(* One action per iteration of the agent loop; the clock is seen only        *)
(* through the test elapsed > MAX_FRAME_TIME_MS.  app_state.follow_cursor is *)
(* false, as init_simulation leaves it.                                      *)

WIDTH == Units(800)
HEIGHT == Units(600)
DEPTH == Units(600)
PERCEPTION_RADIUS == Units(50)
ORBIT_RADIUS == Units(250)

\* cosf and sinf of an angle in milliradians, in thousandths, by their Taylor
\* polynomials: the angles of MaxFrame frames are small.
cosf(a) == 1000 - RoundDiv(a * a, 2000)
sinf(a) == a - RoundDiv(a * a * a, 6000000)

\* The targets of the two leaders on their orbits (follow_cursor false);
\* cosf(a + M_PI) is -cosf(a) and sinf(a + M_PI) is -sinf(a).
OrbitTarget1(angle) ==
    vec3_create(WIDTH \div 2 + RoundDiv(cosf(angle) * ORBIT_RADIUS, 1000),
                HEIGHT \div 2 + RoundDiv(sinf(angle) * ORBIT_RADIUS * 7, 10000),
                DEPTH \div 2 + RoundDiv(sinf(RoundDiv(angle * 3, 2)) * Units(100), 1000))

OrbitTarget2(angle) ==
    vec3_create(WIDTH \div 2 + RoundDiv((-cosf(angle)) * ORBIT_RADIUS, 1000),
                HEIGHT \div 2 + RoundDiv((-sinf(angle)) * ORBIT_RADIUS * 7, 10000),
                DEPTH \div 2 + RoundDiv(cosf(RoundDiv(angle * 3, 2)) * Units(100), 1000))

\* leader += (target - leader) * LEADER_INTERPOLATION, which is 0.05f.
Interpolate(leader, target) ==
    vec3_add(leader, vec3_mult(vec3_sub_new(target, leader), 5, 100))

\* 1.1f + sinf(separation_time) * 0.3f, in thousandths.
SeparationWeight(time) == 1100 + RoundDiv(sinf(time) * 300, 1000)

Agents == 0 .. NUM_PARTICLES - 1

\* The particles init_simulation may create for one agent: the random position
\* and heading take these values.
StartParticles ==
    { particle_create(Units(1), Units(300), Units(300), vec3_create(-Units(1), 0, 0)),
      particle_create(Units(20), Units(300), Units(310), vec3_create(0, Units(1), 0)),
      particle_create(Units(799), Units(599), Units(1), vec3_create(Units(1), 0, 0)),
      particle_create(Units(1), 25, Units(300), vec3_create(-6, -8, 0)) }

Init ==
    /\ particles \in [Agents -> StartParticles]
    /\ spatial_grid = spatial_grid_create(WIDTH, HEIGHT, DEPTH, PERCEPTION_RADIUS * 2, NUM_PARTICLES)
    /\ neighbor_buffer = [k \in 0 .. MAX_NEIGHBORS - 1 |-> 0]
    /\ neighbor_cache = [i \in Agents |-> [neighbors |-> [k \in 0 .. MAX_NEIGHBORS - 1 |-> 0], count |-> 0, frame_cached |-> 0]]
    /\ current_frame = 0
    /\ leader1 = vec3_create(WIDTH \div 2, HEIGHT \div 2, DEPTH \div 2)
    /\ leader2 = vec3_create(WIDTH \div 2, HEIGHT \div 2, DEPTH \div 2)
    /\ leader_angle = 0
    /\ separation_time = 0
    /\ pc = "idle"
    /\ loop_i = 0
    /\ particles_updated = 0
    /\ over_budget = FALSE
    /\ refreshed = [i \in Agents |-> {}]
    /\ processed = [i \in Agents |-> {}]
    /\ query_position = ZeroVec
    /\ query_radius = 0
    /\ neighbor_count_out = 0
    /\ wrap_input = ZeroVec
    /\ current_width = 0
    /\ current_height = 0
    /\ frame_counter = 0
    /\ frame_start = particles

harnessVars == << query_position, query_radius, neighbor_count_out, wrap_input >>

\* The globals that only main_wasm.c has.
wasmVars == << current_width, current_height, frame_counter >>

\* Mutant: the grid is built on frame 0 and kept from then on.
BeginFrame_BuildOnce ==
    /\ pc = "idle"
    /\ current_frame < MaxFrame
    /\ separation_time' = separation_time + SEPARATION_OSCILLATION_SPEED
    /\ leader_angle' = leader_angle + LEADER_SPEED
    /\ leader1' = Interpolate(leader1, OrbitTarget1(leader_angle'))
    /\ leader2' = Interpolate(leader2, OrbitTarget2(leader_angle'))
    /\ spatial_grid' = IF current_frame = 0
                       THEN spatial_grid_update(spatial_grid, particles, NUM_PARTICLES)
                       ELSE spatial_grid
    /\ particles_updated' = 0
    /\ loop_i' = 0
    /\ over_budget' = FALSE
    /\ pc' = "loop"
    /\ frame_start' = particles
    /\ UNCHANGED << particles, neighbor_buffer, neighbor_cache, current_frame, refreshed, processed, harnessVars, wasmVars >>

\* update_simulation up to the agent loop: oscillation, leaders, grid rebuild.
BeginFrame ==
    /\ pc = "idle"
    /\ current_frame < MaxFrame
    /\ separation_time' = separation_time + SEPARATION_OSCILLATION_SPEED
    /\ leader_angle' = leader_angle + LEADER_SPEED
    /\ leader1' = Interpolate(leader1, OrbitTarget1(leader_angle'))
    /\ leader2' = Interpolate(leader2, OrbitTarget2(leader_angle'))
    /\ spatial_grid' = IF current_frame % UPDATE_GRID_EVERY_N_FRAMES = 0
                       THEN spatial_grid_update(spatial_grid, particles, NUM_PARTICLES)
                       ELSE spatial_grid
    /\ particles_updated' = 0
    /\ loop_i' = 0
    /\ over_budget' = FALSE
    /\ pc' = "loop"
    /\ frame_start' = particles
    /\ UNCHANGED << particles, neighbor_buffer, neighbor_cache, current_frame, refreshed, processed, harnessVars, wasmVars >>

\* Mutant: the refresh test without staggering, by the age of the entry alone
\* and with the cache period taken as one frame.
ShouldRefresh_EveryFrame(i, frame, cache) == frame - cache[i].frame_cached >= 1 \/ frame = 0

\* The cache refresh test of one iteration (STAGGER_CACHE_UPDATES is 1).
ShouldRefresh(i, frame, cache) ==
    LET stagger_group == i % CACHE_NEIGHBORS_FRAMES
        should_update == (frame % CACHE_NEIGHBORS_FRAMES) = stagger_group
        needs_init    == frame < CACHE_NEIGHBORS_FRAMES /\ cache[i].count = 0
    IN  should_update \/ needs_init

\* Mutant: the refresh stores the index of the last entry copied as the count.
RefreshedEntry_LastIndexAsCount(entry, res, frame) ==
    [neighbors    |-> [j \in 0 .. MAX_NEIGHBORS - 1 |->
                         IF j < res.count /\ j < MAX_NEIGHBORS THEN res.buffer[j] ELSE entry.neighbors[j]],
     count        |-> res.count - 1,
     frame_cached |-> frame]

\* The cache entry after a refresh from the query result res = [buffer, count].
RefreshedEntry(entry, res, frame) ==
    [neighbors    |-> [j \in 0 .. MAX_NEIGHBORS - 1 |->
                         IF j < res.count /\ j < MAX_NEIGHBORS THEN res.buffer[j] ELSE entry.neighbors[j]],
     count        |-> res.count,
     frame_cached |-> frame]

\* Mutant: the early exit without the half-processed guard.
BudgetExit_NoGuard(over, updated) == over

\* Mutant: the early exit as soon as half of the agents are done.
BudgetExit_AtHalf(over, updated) == over /\ updated >= NUM_PARTICLES \div 2

\* The early exit of the agent loop: over the budget and more than half done.
BudgetExit(over, updated) == over /\ updated > NUM_PARTICLES \div 2

\* Mutant: the cache entry keeps the pointer to the static buffer instead of
\* a copy, so the force computation reads the list from the buffer as it is.
ProcessAgent_BufferNotCopied ==
    /\ pc = "loop"
    /\ loop_i < NUM_PARTICLES
    /\ \E over \in BOOLEAN :
         /\ over_budget => over
         /\ ~BudgetExit(over, particles_updated)
         /\ over_budget' = over
    /\ LET i   == loop_i
           due == ShouldRefresh(i, current_frame, neighbor_cache)
           res == spatial_grid_query_neighbors(spatial_grid, particles, particles[i].position, PERCEPTION_RADIUS, neighbor_buffer)
           entry == IF due THEN RefreshedEntry(neighbor_cache[i], res, current_frame) ELSE neighbor_cache[i]
           p1  == particle_flock_optimized(particles[i], i, particles, IF due THEN res.buffer ELSE neighbor_buffer, entry.count, leader1, leader2, PERCEPTION_RADIUS, SeparationWeight(separation_time))
           p2  == particle_update(p1)
           p3  == particle_wrap(p2, WIDTH, HEIGHT, DEPTH)
       IN  /\ neighbor_cache' = [neighbor_cache EXCEPT ![i] = entry]
           /\ neighbor_buffer' = IF due THEN res.buffer ELSE neighbor_buffer
           /\ refreshed' = IF due THEN [refreshed EXCEPT ![i] = @ \cup {current_frame}] ELSE refreshed
           /\ particles' = [particles EXCEPT ![i] = p3]
           /\ processed' = [processed EXCEPT ![i] = @ \cup {current_frame}]
    /\ particles_updated' = particles_updated + 1
    /\ loop_i' = loop_i + 1
    /\ UNCHANGED << spatial_grid, current_frame, leader1, leader2, leader_angle, separation_time, pc, harnessVars, wasmVars, frame_start >>

\* One iteration of the agent loop that does not break: refresh if due, then
\* steer, integrate and wrap agent loop_i.
ProcessAgent ==
    /\ pc = "loop"
    /\ loop_i < NUM_PARTICLES
    /\ \E over \in BOOLEAN :
         /\ over_budget => over
         /\ ~BudgetExit(over, particles_updated)
         /\ over_budget' = over
    /\ LET i   == loop_i
           due == ShouldRefresh(i, current_frame, neighbor_cache)
           res == spatial_grid_query_neighbors(spatial_grid, particles, particles[i].position, PERCEPTION_RADIUS, neighbor_buffer)
           entry == IF due THEN RefreshedEntry(neighbor_cache[i], res, current_frame) ELSE neighbor_cache[i]
           p1  == particle_flock_optimized(particles[i], i, particles, entry.neighbors, entry.count, leader1, leader2, PERCEPTION_RADIUS, SeparationWeight(separation_time))
           p2  == particle_update(p1)
           p3  == particle_wrap(p2, WIDTH, HEIGHT, DEPTH)
       IN  /\ neighbor_cache' = [neighbor_cache EXCEPT ![i] = entry]
           /\ neighbor_buffer' = IF due THEN res.buffer ELSE neighbor_buffer
           /\ refreshed' = IF due THEN [refreshed EXCEPT ![i] = @ \cup {current_frame}] ELSE refreshed
           /\ particles' = [particles EXCEPT ![i] = p3]
           /\ processed' = [processed EXCEPT ![i] = @ \cup {current_frame}]
    /\ particles_updated' = particles_updated + 1
    /\ loop_i' = loop_i + 1
    /\ UNCHANGED << spatial_grid, current_frame, leader1, leader2, leader_angle, separation_time, pc, harnessVars, wasmVars, frame_start >>

\* Mutant: the break stamps the caches of the agents it skips.
BudgetBreak_StampSkipped ==
    /\ pc = "loop"
    /\ loop_i < NUM_PARTICLES
    /\ BudgetExit(TRUE, particles_updated)
    /\ over_budget' = TRUE
    /\ pc' = "broke"
    /\ neighbor_cache' = [i \in Agents |-> IF i >= loop_i THEN [neighbor_cache[i] EXCEPT !.frame_cached = current_frame + 1] ELSE neighbor_cache[i]]
    /\ UNCHANGED << particles, spatial_grid, neighbor_buffer, current_frame, leader1, leader2, leader_angle, separation_time, loop_i, particles_updated, refreshed, processed, harnessVars, wasmVars, frame_start >>

\* The iteration that breaks: the agents from loop_i on are skipped.
BudgetBreak ==
    /\ pc = "loop"
    /\ loop_i < NUM_PARTICLES
    /\ BudgetExit(TRUE, particles_updated)
    /\ over_budget' = TRUE
    /\ pc' = "broke"
    /\ UNCHANGED << particles, spatial_grid, neighbor_buffer, neighbor_cache, current_frame, leader1, leader2, leader_angle, separation_time, loop_i, particles_updated, refreshed, processed, harnessVars, wasmVars, frame_start >>

\* After the loop: current_frame++.
EndFrame ==
    /\ \/ pc = "loop" /\ loop_i >= NUM_PARTICLES
       \/ pc = "broke"
    /\ current_frame' = current_frame + 1
    /\ pc' = "idle"
    /\ UNCHANGED << particles, spatial_grid, neighbor_buffer, neighbor_cache, leader1, leader2, leader_angle, separation_time, loop_i, particles_updated, over_budget, refreshed, processed, harnessVars, wasmVars, frame_start >>

Next == BeginFrame \/ ProcessAgent \/ BudgetBreak \/ EndFrame

Spec == Init /\ [][Next]_vars

----------------------------------------------------------------------------
(* Claims about the frame loop.  In a state with pc "loop" or "broke" the   *)
(* agents below loop_i are those processed in frame current_frame; with pc  *)
(* "idle" the frames below current_frame are complete.                      *)

Processed == 0 .. loop_i - 1

\* C1 as stated: for every agent and every window of CACHE_NEIGHBORS_FRAMES
\* consecutive complete frames that starts at or after frame
\* CACHE_NEIGHBORS_FRAMES, the agent's cache is refreshed in exactly one
\* frame of the window.
C1_StaggeringCoverage ==
    pc = "idle" =>
        \A i \in Agents :
            \A s \in CACHE_NEIGHBORS_FRAMES .. current_frame - CACHE_NEIGHBORS_FRAMES :
                Cardinality(refreshed[i] \cap (s .. s + CACHE_NEIGHBORS_FRAMES - 1)) = 1

\* C2 as stated: the cache entry an agent's force computation has read in the
\* current frame is at most CACHE_NEIGHBORS_FRAMES frames old.
C2_BoundedStaleness ==
    pc \in {"loop", "broke"} =>
        \A i \in Processed :
            current_frame - neighbor_cache[i].frame_cached <= CACHE_NEIGHBORS_FRAMES

\* The position lies in [0, width) x [0, height) x [0, depth).
InWorld(pos, width, height, depth) ==
    /\ 0 <= pos.x /\ pos.x < width
    /\ 0 <= pos.y /\ pos.y < height
    /\ 0 <= pos.z /\ pos.z < depth

\* C8 as stated: every agent processed in a frame, hence wrapped by
\* particle_wrap, has each position component in the half-open interval
\* [0, extent) of its axis.
C8_PositionInRange ==
    pc \in {"loop", "broke", "idle"} =>
        \A i \in Processed : InWorld(particles[i].position, WIDTH, HEIGHT, DEPTH)

----------------------------------------------------------------------------
(* particle_wrap on its own: a position is drawn around a small world and   *)
(* wrapped.                                                                 *)

\* The extents handed to particle_wrap, in lattice units.
WrapWorld == [width |-> 4, height |-> 3, depth |-> 2]

WrapInputs ==
    { vec3_create(x, y, z) : x \in -WrapMargin .. WrapWorld.width + WrapMargin,
                             y \in -WrapMargin .. WrapWorld.height + WrapMargin,
                             z \in -WrapMargin .. WrapWorld.depth + WrapMargin }

WrapInit ==
    /\ pc = "wrap_ready"
    /\ particles \in [{0} -> {ParticleAt(pos) : pos \in WrapInputs}]
    /\ wrap_input = particles[0].position
    /\ spatial_grid = << >>
    /\ neighbor_buffer = [k \in 0 .. MAX_NEIGHBORS - 1 |-> 0]
    /\ query_position = ZeroVec
    /\ query_radius = 0
    /\ neighbor_count_out = 0
    /\ LoopAtRest

WrapApply ==
    /\ pc \in {"wrap_ready", "wrapped"}
    /\ wrap_input' = particles[0].position
    /\ particles' = [particles EXCEPT ![0] = particle_wrap(@, WrapWorld.width, WrapWorld.height, WrapWorld.depth)]
    /\ pc' = "wrapped"
    /\ UNCHANGED << spatial_grid, neighbor_buffer, query_position, query_radius, neighbor_count_out, loopVars >>

WrapNext == WrapApply

WrapSpec == WrapInit /\ [][WrapNext]_vars

\* C9 as stated: particle_wrap maps a position component exactly equal to the
\* extent of its axis to 0.
C9_ExtentWrapsToZero ==
    pc = "wrapped" =>
        /\ wrap_input.x = WrapWorld.width  => particles[0].position.x = 0
        /\ wrap_input.y = WrapWorld.height => particles[0].position.y = 0
        /\ wrap_input.z = WrapWorld.depth  => particles[0].position.z = 0

\* C10 as stated: particle_wrap maps a component extent + e, e > 0, to e.
C10_OvershootPreserved ==
    pc = "wrapped" =>
        /\ wrap_input.x > WrapWorld.width  => particles[0].position.x = wrap_input.x - WrapWorld.width
        /\ wrap_input.y > WrapWorld.height => particles[0].position.y = wrap_input.y - WrapWorld.height
        /\ wrap_input.z > WrapWorld.depth  => particles[0].position.z = wrap_input.z - WrapWorld.depth

\* C10, amended: particle_wrap maps a component extent + e, e > 0, to 0: the
\* overshoot is dropped.
C10_OvershootResetToZero ==
    pc = "wrapped" =>
        /\ wrap_input.x > WrapWorld.width  => particles[0].position.x = 0
        /\ wrap_input.y > WrapWorld.height => particles[0].position.y = 0
        /\ wrap_input.z > WrapWorld.depth  => particles[0].position.z = 0

\* A wrap of a position whose x is two units past the width, with y and z in
\* range.
C10_Witness ==
    /\ pc = "wrapped"
    /\ wrap_input.x = WrapWorld.width + 2
    /\ wrap_input.y = 1
    /\ wrap_input.z = 1
    /\ particles[0].position = vec3_create(0, 1, 1)

\* The position lies in the closed box [0, width] x [0, height] x [0, depth].
InClosedWorld(pos, width, height, depth) ==
    /\ 0 <= pos.x /\ pos.x <= width
    /\ 0 <= pos.y /\ pos.y <= height
    /\ 0 <= pos.z /\ pos.z <= depth

\* C11: particle_wrap leaves a position with every component in bounds
\* unchanged, and a wrapped position is a fixed point of particle_wrap:
\* wrap(wrap(p)) = wrap(p) for every position p.
C11_WrapIdempotent ==
    pc = "wrapped" =>
        /\ InClosedWorld(wrap_input, WrapWorld.width, WrapWorld.height, WrapWorld.depth)
              => particles[0].position = wrap_input
        /\ particle_wrap(particles[0], WrapWorld.width, WrapWorld.height, WrapWorld.depth) = particles[0]

\* The second wrap of a position that the first wrap moved to the extent on x
\* and to 0 on y: the input of the second wrap comes back unchanged.
C11_Witness ==
    /\ pc = "wrapped"
    /\ wrap_input = vec3_create(WrapWorld.width, 0, 1)
    /\ particles[0].position = wrap_input

----------------------------------------------------------------------------
(* particle_update on its own: a particle is drawn with a velocity within   *)
(* max_speed, and integrated under synthetic forces.                        *)

\* Velocities of magnitude at most max_speed (4.0).
UpdateVelocities ==
    { vec3_create(x, y, z) : x \in {-Units(2), 0, 23}, y \in {-23, 0, Units(4)}, z \in {-23, 0, 23} }
        \cap { v \in [x : -Units(4) .. Units(4), y : -Units(4) .. Units(4), z : -Units(4) .. Units(4)] :
                 v.x * v.x + v.y * v.y + v.z * v.z <= Units(4) * Units(4) }

\* Forces added to the accumulator before an integration step: none, of the
\* size of max_force, and far larger.
UpdateForces ==
    { vec3_create(0, 0, 0), vec3_create(1, 0, -1), vec3_create(3, 4, 0),
      vec3_create(ForceMax, 0, 0), vec3_create(ForceMax, ForceMax, ForceMax),
      vec3_create(-ForceMax, 7, 0), vec3_create(13, -ForceMax, ForceMax),
      vec3_create(0, 29, -31) }

UpdateInit ==
    /\ pc = "update_ready"
    /\ particles \in [{0} -> {[ParticleAt(PointA) EXCEPT !.velocity = v] : v \in UpdateVelocities}]
    /\ wrap_input = ZeroVec
    /\ spatial_grid = << >>
    /\ neighbor_buffer = [k \in 0 .. MAX_NEIGHBORS - 1 |-> 0]
    /\ query_position = ZeroVec
    /\ query_radius = 0
    /\ neighbor_count_out = 0
    /\ LoopAtRest

\* A synthetic force is accumulated (vec3_add on the acceleration, as
\* particle_flock_optimized does) and particle_update integrates.
UpdateApply ==
    /\ pc \in {"update_ready", "updated"}
    /\ particles_updated < UpdateSteps
    /\ \E force \in UpdateForces :
         particles' = [particles EXCEPT ![0] = particle_update([@ EXCEPT !.acceleration = vec3_add(@, force)])]
    /\ particles_updated' = particles_updated + 1
    /\ pc' = "updated"
    /\ UNCHANGED << spatial_grid, neighbor_buffer, neighbor_cache, current_frame, leader1, leader2, leader_angle, separation_time, loop_i, over_budget, refreshed, processed, harnessVars, wasmVars, frame_start >>

UpdateNext == UpdateApply

UpdateSpec == UpdateInit /\ [][UpdateNext]_vars

\* The squared magnitude of v, exactly.
MagSq(v) == v.x * v.x + v.y * v.y + v.z * v.z

\* C12: after particle_update the velocity magnitude is at most max_speed,
\* whatever acceleration was accumulated.  On the lattice the clamp rounds
\* each component and the magnitude it divides by to the nearest point, as C
\* rounds to the nearest float, so the magnitude is within two lattice units
\* of max_speed (half a unit from the divisor, under one from the three
\* components); the accumulator is zero again.
C12_VelocityClamped ==
    pc = "updated" =>
        /\ MagSq(particles[0].velocity) <= (particles[0].max_speed + 2) * (particles[0].max_speed + 2)
        /\ particles[0].acceleration = ZeroVec

\* An integration step under an oversized force that left the velocity at
\* max_speed along the force.
C12_Witness ==
    /\ pc = "updated"
    /\ particles[0].velocity = vec3_create(Units(4), 0, 0)
    /\ particles[0].position.x > PointA.x + Units(4)

----------------------------------------------------------------------------
(* Further claims about the frame loop.                                     *)

\* C13 as stated: once the first CACHE_NEIGHBORS_FRAMES frames are complete
\* every agent's cache has been refreshed in one of them, and an agent whose
\* force computation has run in the current frame has a cache that was
\* refreshed in this or an earlier frame.
C13_ColdStartRefresh ==
    /\ (pc = "idle" /\ current_frame >= CACHE_NEIGHBORS_FRAMES) =>
          \A i \in Agents : refreshed[i] \cap (0 .. CACHE_NEIGHBORS_FRAMES - 1) # {}
    /\ pc \in {"loop", "broke"} =>
          \A i \in Processed : refreshed[i] # {}

\* The agents processed in frame f.
ProcessedIn(f) == {i \in Agents : f \in processed[i]}

\* C14: the loop has broken only over the budget and with more than half of
\* the agents processed, and every frame, complete or broken off, processes
\* at least floor(NUM_PARTICLES / 2) + 1 agents.
C14_HalfProcessedGuard ==
    /\ pc = "broke" =>
          /\ over_budget
          /\ particles_updated > NUM_PARTICLES \div 2
          /\ Cardinality(ProcessedIn(current_frame)) >= NUM_PARTICLES \div 2 + 1
    /\ pc = "idle" =>
          \A f \in 0 .. current_frame - 1 :
              Cardinality(ProcessedIn(f)) >= NUM_PARTICLES \div 2 + 1

\* A frame broken off as early as the guard allows, with an agent skipped.
C14_Witness ==
    /\ pc = "broke"
    /\ loop_i = NUM_PARTICLES \div 2 + 1
    /\ ProcessedIn(current_frame) = 0 .. NUM_PARTICLES \div 2
    /\ NUM_PARTICLES - 1 \notin ProcessedIn(current_frame)

\* C15: an agent's particle and cache entry change only in the step that
\* processes that agent (the iteration i = loop_i of a frame that has not
\* broken off).  An agent the early exit skips in a frame has no such step in
\* it, so its position, velocity, acceleration and cache entry are the same
\* after the frame as before.
C15_SkippedUntouched ==
    [][\A i \in Agents :
          (particles'[i] # particles[i] \/ neighbor_cache'[i] # neighbor_cache[i])
              => /\ pc = "loop" /\ pc' = "loop"
                 /\ loop_i = i /\ loop_i' = i + 1
                 /\ processed'[i] = processed[i] \cup {current_frame}]_vars

\* Two frames broken off before the last agent, which is still as
\* init_simulation left it.
C15_Witness ==
    /\ pc = "idle"
    /\ current_frame = 2
    /\ processed[NUM_PARTICLES - 1] = {}
    /\ particles[NUM_PARTICLES - 1] \in StartParticles
    /\ neighbor_cache[NUM_PARTICLES - 1] = [neighbors |-> [k \in 0 .. MAX_NEIGHBORS - 1 |-> 0], count |-> 0, frame_cached |-> 0]
    /\ particles[0] \notin StartParticles

\* C16 as stated: an agent that was not processed in a complete frame f was
\* processed in frame f + 1.
C16_SkippedOneFrameOnly ==
    pc = "idle" =>
        \A i \in Agents : \A f \in 0 .. current_frame - 2 :
            f \notin processed[i] => f + 1 \in processed[i]

\* The agents the grid holds in no bucket.
Excluded == {i \in Agents : PlacesOf(spatial_grid, i) = {}}

\* C18 as stated: at a rebuild an agent whose position is outside the grid is
\* put in no bucket, and an agent that the rebuild of a frame excluded has,
\* when that frame is over, a position inside the grid, so that the next
\* rebuild buckets it.
C18_ExclusionSelfCorrecting ==
    /\ (pc = "loop" /\ loop_i = 0) =>
          \A i \in Agents :
              ~InGridBounds(spatial_grid, particles[i].position) => i \in Excluded
    /\ (pc = "idle" /\ current_frame > 0) =>
          \A i \in Excluded : InGridBounds(spatial_grid, particles[i].position)

\* The array element has been written since malloc.  (The comparison is on
\* the printed values: TLC does not compare a number with a string.)
Written(e) == ToString(e) # ToString(Uninit)

\* Every array element of the grid that a query may read has been written.
GridBuilt(grid) ==
    \A c \in Cells(grid) : Written(grid.cell_counts[c]) /\ Written(grid.cell_starts[c])

\* The grid buckets the agents by their positions of this state: an agent
\* inside the grid is in the run of the cell its position maps to, an agent
\* outside is in no run.
GridIsCurrent ==
    /\ GridBuilt(spatial_grid)
    /\ \A i \in Agents :
          IF InGridBounds(spatial_grid, particles[i].position)
          THEN \E c \in Cells(spatial_grid) :
                   /\ spatial_grid.cell_counts[c] > 0
                   /\ i \in Run(spatial_grid, c)
                   /\ MapsToCell(spatial_grid, particles[i].position, c)
          ELSE i \in Excluded

\* C19: the grid changes only in the part of a frame before the agent loop,
\* and only on a frame f with f mod UPDATE_GRID_EVERY_N_FRAMES = 0; on such a
\* frame the agent loop starts with a grid built from all current positions,
\* whichever agents are due for a refresh; and the agent loop, where the
\* queries are issued, never runs on a grid that has not been built, frame 0
\* included.
C19_GridRebuildCadence ==
    /\ [](pc \in {"loop", "broke"} => GridBuilt(spatial_grid))
    /\ []((pc = "loop" /\ loop_i = 0 /\ current_frame % UPDATE_GRID_EVERY_N_FRAMES = 0) => GridIsCurrent)
    /\ [][ToString(spatial_grid') # ToString(spatial_grid) =>
            /\ pc = "idle" /\ pc' = "loop"
            /\ current_frame % UPDATE_GRID_EVERY_N_FRAMES = 0]_vars

\* The start of the agent loop of frame 1, on a grid rebuilt after frame 0
\* moved the agents: it excludes an agent that frame 0 wrapped to the extent.
C19_Witness ==
    /\ pc = "loop"
    /\ loop_i = 0
    /\ current_frame = 1
    /\ GridIsCurrent
    /\ 0 \in Excluded
    /\ 1 \notin Excluded

----------------------------------------------------------------------------
(* particle_flock_optimized on its own: an agent array and a neighbour list *)
(* are drawn and agent 0 is steered once.                                   *)

\* PointA displaced by one lattice unit (0.1): the nearest distinct position.
PointNearA == vec3_create(PointA.x + 1, PointA.y, PointA.z)

\* From PointA: itself (distance 0), PointNearA (0.1), PointB (8.7, inside
\* the perception radius of 50) and PointC (138.6, outside).
FlockParticles ==
    { particle_create(PointA.x, PointA.y, PointA.z, vec3_create(Units(1), 0, 0)),
      particle_create(PointNearA.x, PointNearA.y, PointNearA.z, vec3_create(0, 0, -Units(1))),
      particle_create(PointB.x, PointB.y, PointB.z, vec3_create(0, Units(1), 0)),
      particle_create(PointC.x, PointC.y, PointC.z, vec3_create(-6, 0, 8)) }

\* The neighbour lists: count entries, each an index of the array, in a
\* buffer of MAX_NEIGHBORS.
FlockLists ==
    UNION { { [neighbors |-> [k \in 0 .. MAX_NEIGHBORS - 1 |-> IF k < n THEN l[k] ELSE 0], count |-> n, frame_cached |-> 0] :
                l \in [0 .. n - 1 -> 0 .. FlockCount - 1] } : n \in 0 .. FlockListLen }

FlockInit ==
    /\ pc = "flock_ready"
    /\ particles \in [0 .. FlockCount - 1 -> FlockParticles]
    /\ neighbor_cache \in [{0} -> FlockLists]
    /\ leader1 = PointE
    /\ leader2 = PointC
    /\ spatial_grid = << >>
    /\ neighbor_buffer = [k \in 0 .. MAX_NEIGHBORS - 1 |-> 0]
    /\ current_frame = 0
    /\ leader_angle = 0
    /\ separation_time = 0
    /\ loop_i = 0
    /\ particles_updated = 0
    /\ over_budget = FALSE
    /\ refreshed = << >>
    /\ processed = << >>
    /\ query_position = ZeroVec
    /\ query_radius = 0
    /\ neighbor_count_out = 0
    /\ wrap_input = ZeroVec
    /\ current_width = 0
    /\ current_height = 0
    /\ frame_counter = 0
    /\ frame_start = << >>

FlockApply ==
    /\ pc = "flock_ready"
    /\ particles' = [particles EXCEPT ![0] = particle_flock_optimized(@, 0, particles, neighbor_cache[0].neighbors, neighbor_cache[0].count, leader1, leader2, PERCEPTION_RADIUS, SeparationWeight(separation_time))]
    /\ pc' = "flocked"
    /\ UNCHANGED << spatial_grid, neighbor_buffer, loopVars, harnessVars >>

FlockNext == FlockApply

FlockSpec == FlockInit /\ [][FlockNext]_vars

\* The forces of the steering call on agent 0.  The call changes only the
\* acceleration of agent 0, which the forces do not depend on.
FlockOut ==
    FlockForces(particles[0], 0, particles, neighbor_cache[0].neighbors, neighbor_cache[0].count, leader1, leader2, PERCEPTION_RADIUS, SeparationWeight(separation_time))

\* The squared distance from agent 0 to the agent named by list entry k.
EntryDistSq(k) ==
    vec3_dist_sq_inline(particles[0].position, particles[neighbor_cache[0].neighbors[k]].position)

\* The list entries that are another agent at a squared distance d2 with
\* 0.001 < d2 < perception_radius^2 (0.001 is a tenth of a squared lattice
\* unit).
ContributingEntries ==
    {k \in 0 .. neighbor_cache[0].count - 1 :
        /\ neighbor_cache[0].neighbors[k] # 0
        /\ 10 * EntryDistSq(k) > 1
        /\ EntryDistSq(k) < PERCEPTION_RADIUS * PERCEPTION_RADIUS}

\* Half the seek force toward the nearer leader (leader2 on a tie).
HalfLeaderSeek ==
    LET p == particles[0]
        nearer == IF MagSq(vec3_sub(p.position, leader1)) < MagSq(vec3_sub(p.position, leader2))
                  THEN leader1 ELSE leader2
    IN  vec3_mult(particle_seek(p, nearer), 1, 2)

\* C17: when no entry of the neighbour list contributes (the list is empty or
\* holds only the agent itself, agents at its very position and agents
\* outside the perception radius), separation, alignment and cohesion are the
\* zero vector and the acceleration added is half the leader-seek force.
C17_IsolatedAgent ==
    (pc = "flocked" /\ ContributingEntries = {}) =>
        /\ FlockOut.separation = ZeroVec
        /\ FlockOut.alignment = ZeroVec
        /\ FlockOut.cohesion = ZeroVec
        /\ particles[0].acceleration = HalfLeaderSeek

\* Agent 0 steered with a list of itself and an agent outside the radius: it
\* is accelerated by the leader alone.
C17_Witness ==
    /\ pc = "flocked"
    /\ neighbor_cache[0].count = 2
    /\ neighbor_cache[0].neighbors[0] = 0
    /\ neighbor_cache[0].neighbors[1] = 1
    /\ particles[0].position = PointA
    /\ particles[1].position = PointC
    /\ particles[0].acceleration = vec3_create(1, 0, 0)

\* C20: the three counts of a steering call are equal, and equal the number
\* of list entries that are another agent at a squared distance d2 with
\* 0.001 < d2 < perception_radius^2: exactly those entries contribute, each
\* to separation, alignment and cohesion alike.
C20_ContributionPredicate ==
    pc = "flocked" =>
        /\ FlockOut.sep_count = Cardinality(ContributingEntries)
        /\ FlockOut.align_count = FlockOut.sep_count
        /\ FlockOut.coh_count = FlockOut.sep_count

\* A list of an agent at the very position of agent 0 and one 0.1 away: only
\* the second contributes.
C20_Witness ==
    /\ pc = "flocked"
    /\ neighbor_cache[0].count = 2
    /\ neighbor_cache[0].neighbors[0] = 1
    /\ neighbor_cache[0].neighbors[1] = 2
    /\ particles[0].position = PointA
    /\ particles[1].position = PointA
    /\ particles[2].position = PointNearA
    /\ ContributingEntries = {1}
    /\ FlockOut.sep_count = 1
    /\ particles[0].acceleration # HalfLeaderSeek

----------------------------------------------------------------------------
(* Claims about the frame loop, continued.                                  *)

\* C21: in the step that processes an agent the position advances by the new
\* velocity, the one already clamped to max_speed (then it is wrapped), and
\* the acceleration is left zero; an agent's acceleration is the zero vector
\* at every frame boundary, whether the frame processed or skipped it.
C21_AccelerationReset ==
    /\ [](pc = "idle" => \A i \in Agents : particles[i].acceleration = ZeroVec)
    /\ [][\A i \in Agents :
            current_frame \in processed'[i] \ processed[i] =>
                /\ MagSq(particles'[i].velocity) <= (particles[i].max_speed + 2) * (particles[i].max_speed + 2)
                /\ particles'[i].position =
                     [x |-> WrapAxis(particles[i].position.x + particles'[i].velocity.x, WIDTH),
                      y |-> WrapAxis(particles[i].position.y + particles'[i].velocity.y, HEIGHT),
                      z |-> WrapAxis(particles[i].position.z + particles'[i].velocity.z, DEPTH)]
                /\ particles'[i].acceleration = ZeroVec]_vars

\* A frame boundary after a frame that steered agent 0, changing its
\* velocity, and skipped the last agent.
C21_Witness ==
    /\ pc = "idle"
    /\ current_frame = 1
    /\ 0 \notin processed[NUM_PARTICLES - 1]
    /\ particles[0].velocity = vec3_create(-19, 0, 0)
    /\ particles[0].acceleration = ZeroVec
    /\ particles[NUM_PARTICLES - 1].acceleration = ZeroVec

----------------------------------------------------------------------------
(* Claims about the spatial index, continued.                               *)

\* The agents stored in the k-th cell of the scan around the last query
\* point that are within the query radius, in the order the run stores them.
\* The scan counts dx fastest, then dy, then dz, each from -1 to +1.
ScanMatches(k) ==
    LET g  == spatial_grid
        x  == query_position.x \div g.cell_size + (k % 3) - 1
        y  == query_position.y \div g.cell_size + ((k \div 3) % 3) - 1
        z  == query_position.z \div g.cell_size + (k \div 9) - 1
        c  == x + y * g.grid_width + z * g.grid_width * g.grid_height
        inside == /\ 0 <= x /\ x < g.grid_width
                  /\ 0 <= y /\ y < g.grid_height
                  /\ 0 <= z /\ z < g.grid_depth
    IN  IF ~inside THEN << >>
        ELSE SelectSeq([j \in 1 .. g.cell_counts[c] |-> g.particle_indices[g.cell_starts[c] + j - 1]],
                       LAMBDA a : MagSq(vec3_sub(query_position, particles[a].position)) < query_radius * query_radius)

\* The matches of the cells k .. 26, in scan order.
RECURSIVE MatchList(_)
MatchList(k) == IF k >= 27 THEN << >> ELSE ScanMatches(k) \o MatchList(k + 1)

\* C22: the query returns the first MAX_NEIGHBORS entries of the list of all
\* matching agents in cell-scan order (the whole list when it is shorter),
\* and the same call made again returns the same buffer and count.
C22_TruncationInScanOrder ==
    pc = "grid_queried" =>
        LET m == MatchList(0)
            n == IF Len(m) > MAX_NEIGHBORS THEN MAX_NEIGHBORS ELSE Len(m)
            again == spatial_grid_query_neighbors(spatial_grid, particles, query_position, query_radius, neighbor_buffer)
        IN  /\ neighbor_count_out = n
            /\ \A j \in 1 .. n : neighbor_buffer[j - 1] = m[j]
            /\ again.count = neighbor_count_out
            /\ again.buffer = neighbor_buffer

\* A saturated query from PointE: the ten agents at PointA, 45 away, are
\* scanned first and fill the buffer; the agent at PointE itself, the
\* nearest, is cut off.
C22_Witness ==
    /\ pc = "grid_queried"
    /\ query_position = PointE
    /\ Len(MatchList(0)) > MAX_NEIGHBORS
    /\ neighbor_count_out = MAX_NEIGHBORS
    /\ particles[MAX_NEIGHBORS].position = PointE
    /\ MAX_NEIGHBORS \notin Returned
    /\ \A i \in Returned : particles[i].position = PointA

\* The agents whose cache was refreshed in frame f.
RefreshedIn(f) == {i \in Agents : f \in refreshed[i]}

\* The agents of the stagger group that is due on frame f.
StaggerGroup(f) == {i \in Agents : i % CACHE_NEIGHBORS_FRAMES = f % CACHE_NEIGHBORS_FRAMES}

\* C24: in a complete frame f past the cold-start window in which no agent
\* was skipped, the agents refreshed are exactly the stagger group of f, and
\* their number lies between floor(N / cache_period) and ceil(N / cache_period).
C24_EvenRefreshWorkload ==
    pc = "idle" =>
        \A f \in CACHE_NEIGHBORS_FRAMES .. current_frame - 1 :
            ProcessedIn(f) = Agents =>
                /\ RefreshedIn(f) = StaggerGroup(f)
                /\ Cardinality(RefreshedIn(f)) >= NUM_PARTICLES \div CACHE_NEIGHBORS_FRAMES
                /\ Cardinality(RefreshedIn(f)) <= CeilDiv(NUM_PARTICLES, CACHE_NEIGHBORS_FRAMES)

\* Frames 2 and 3 ran in full: frame 2 refreshed the even agents, frame 3 the
\* odd ones.
C24_Witness ==
    /\ pc = "idle"
    /\ current_frame = 4
    /\ ProcessedIn(2) = Agents
    /\ ProcessedIn(3) = Agents
    /\ RefreshedIn(2) = {i \in Agents : i % 2 = 0}
    /\ RefreshedIn(3) = {i \in Agents : i % 2 = 1}

\* The slots of particle_indices that the run of cell c occupies.
RunSlots(grid, c) == grid.cell_starts[c] .. grid.cell_starts[c] + grid.cell_counts[c] - 1

\* C25: after spatial_grid_update every cell with zero occupancy has
\* cell_starts = -1, every occupied cell has cell_starts equal to the sum of
\* the occupancies of the lower-indexed cells, and the runs are pairwise
\* disjoint and cover exactly the slots 0 .. M - 1 of particle_indices, M
\* being the number of agents within the grid bounds.
C25_CountingSortLayout ==
    GridIsBuilt =>
        LET grid     == spatial_grid
            occupied == {c \in Cells(grid) : grid.cell_counts[c] > 0}
            M        == Cardinality({i \in DOMAIN particles : InGridBounds(grid, particles[i].position)})
        IN  /\ \A c \in Cells(grid) \ occupied : grid.cell_starts[c] = -1
            /\ \A c \in occupied :
                 grid.cell_starts[c] = SumCounts(grid, 0) - SumCounts(grid, c)
            /\ \A c, d \in occupied : c # d => RunSlots(grid, c) \cap RunSlots(grid, d) = {}
            /\ UNION {RunSlots(grid, c) : c \in occupied} = 0 .. M - 1

\* A built grid with three occupied cells, an empty cell between two of them,
\* and an agent outside the grid.
C25_Witness ==
    /\ pc = "grid_built"
    /\ Cardinality({c \in Cells(spatial_grid) : spatial_grid.cell_counts[c] > 0}) >= 3
    /\ \E c, d, e \in Cells(spatial_grid) :
         /\ c < d /\ d < e
         /\ spatial_grid.cell_counts[c] > 0
         /\ spatial_grid.cell_counts[d] = 0
         /\ spatial_grid.cell_counts[e] > 0
         /\ spatial_grid.cell_starts[e] > spatial_grid.cell_counts[c]
    /\ \E i \in DOMAIN particles : ~InGridBounds(spatial_grid, particles[i].position)

\* C27: in every frame, finished or in progress, the processed agents are
\* the prefix 0 .. k - 1 of the index order; in a finished frame k is
\* NUM_PARTICLES or exceeds floor(NUM_PARTICLES / 2), so that the agents
\* 0 .. floor(NUM_PARTICLES / 2) are processed in every frame and only agents
\* above can be skipped, in every frame of a sustained overrun too.
C27_PrefixProcessing ==
    /\ pc \in {"loop", "broke"} => ProcessedIn(current_frame) = 0 .. loop_i - 1
    /\ pc = "broke" => loop_i > NUM_PARTICLES \div 2
    /\ pc = "idle" =>
          \A f \in 0 .. current_frame - 1 :
              /\ \E k \in 0 .. NUM_PARTICLES :
                    /\ ProcessedIn(f) = 0 .. k - 1
                    /\ k = NUM_PARTICLES \/ k > NUM_PARTICLES \div 2
              /\ 0 .. NUM_PARTICLES \div 2 \subseteq ProcessedIn(f)

\* A sustained overrun: every frame so far was broken off after the agents
\* 0 .. floor(NUM_PARTICLES / 2), and the last agent was never processed.
C27_Witness ==
    /\ pc = "idle"
    /\ current_frame = MaxFrame
    /\ \A f \in 0 .. current_frame - 1 : ProcessedIn(f) = 0 .. NUM_PARTICLES \div 2
    /\ processed[NUM_PARTICLES - 1] = {}

\* The frame loop of main.c together with the direct calls of the grid
\* functions: the cache entries of the loop, and the entry a refresh makes of
\* any query result, the saturated ones included.
CacheInit == Init \/ GridInit

CacheNext == Next \/ GridNext

CacheSpec == CacheInit /\ [][CacheNext]_vars

\* The entry is in range for the force computation over an array of n agents:
\* the count is within the neighbors array and each of the first count entries
\* indexes the agent array.
EntryInRange(entry, n) ==
    /\ 0 <= entry.count
    /\ entry.count <= MAX_NEIGHBORS
    /\ \A k \in 0 .. entry.count - 1 : entry.neighbors[k] \in 0 .. n - 1

\* neighbor_cache as calloc leaves an entry (main.c:116).
ClearedEntry == [neighbors |-> [k \in 0 .. MAX_NEIGHBORS - 1 |-> 0], count |-> 0, frame_cached |-> 0]

\* C26: in every state of the native loop every agent's cache entry has
\* 0 <= count <= MAX_NEIGHBORS and its first count entries are agent indices
\* in 0 .. NUM_PARTICLES - 1; and the entry that the refresh makes of the
\* result of any query, with more than MAX_NEIGHBORS agents in range too, is
\* in range for the array queried.
C26_CacheEntriesInRange ==
    /\ pc \in {"idle", "loop", "broke"} =>
          \A i \in Agents : EntryInRange(neighbor_cache[i], NUM_PARTICLES)
    /\ pc = "grid_queried" =>
          EntryInRange(RefreshedEntry(ClearedEntry, [buffer |-> neighbor_buffer, count |-> neighbor_count_out], 0),
                       Count(particles))

\* A cache entry of the loop that lists the last agent.
C26_Witness ==
    /\ pc = "idle"
    /\ \E i \in Agents :
         /\ neighbor_cache[i].count >= 2
         /\ \E k \in 0 .. neighbor_cache[i].count - 1 : neighbor_cache[i].neighbors[k] = NUM_PARTICLES - 1

\* A query that filled the buffer with more agents in range than it holds.
C26_WitnessSaturated ==
    /\ pc = "grid_queried"
    /\ neighbor_count_out = MAX_NEIGHBORS
    /\ Cardinality(LinearScan(particles, query_position, query_radius)) > MAX_NEIGHBORS

(***************************************************************************)
(* The frame loop of the WebAssembly build (main_wasm.c).  It has no cache  *)
(* and no frame budget: the grid is rebuilt every frame and every agent     *)
(* queries it afresh; every SORT_EVERY_N_FRAMES frames the agent array is   *)
(* sorted by depth.  The extents of wrap and leader orbits are the globals  *)
(* current_width and current_height, which main sets from the canvas before *)
(* init_simulation and resize_canvas sets whenever the page calls it        *)
(* between two frames.                                                      *)
(***************************************************************************)
SORT_EVERY_N_FRAMES == 3

\* The canvas sizes main and resize_canvas may see.
CanvasSizes == {<< WIDTH, HEIGHT >>, << Units(400), Units(300) >>}

\* The orbit targets of update_simulation, with the extents current.
WasmOrbitTarget1(angle, width, height) ==
    vec3_create(width \div 2 + RoundDiv(cosf(angle) * ORBIT_RADIUS, 1000),
                height \div 2 + RoundDiv(sinf(angle) * ORBIT_RADIUS * 7, 10000),
                DEPTH \div 2 + RoundDiv(sinf(RoundDiv(angle * 3, 2)) * Units(100), 1000))

WasmOrbitTarget2(angle, width, height) ==
    vec3_create(width \div 2 + RoundDiv((-cosf(angle)) * ORBIT_RADIUS, 1000),
                height \div 2 + RoundDiv((-sinf(angle)) * ORBIT_RADIUS * 7, 10000),
                DEPTH \div 2 + RoundDiv(cosf(RoundDiv(angle * 3, 2)) * Units(100), 1000))

\* compare_particles_by_z orders by descending z.  qsort is not stable, so
\* every arrangement of the array that is descending in z is a possible
\* outcome.
SortedByZ(parts) ==
    LET perms == {f \in [Agents -> Agents] : \A i, j \in Agents : i # j => f[i] # f[j]}
    IN  {[i \in Agents |-> parts[f[i]]] : f \in
            {g \in perms : \A i \in Agents : i + 1 \in Agents => parts[g[i]].position.z >= parts[g[i + 1]].position.z}}

\* The particles init_simulation may create for one agent, before the canvas
\* size is taken into account: the first three of StartParticles.
WasmStartParticles ==
    { particle_create(Units(1), Units(300), Units(300), vec3_create(-Units(1), 0, 0)),
      particle_create(Units(20), Units(300), Units(310), vec3_create(0, Units(1), 0)),
      particle_create(Units(799), Units(599), Units(1), vec3_create(Units(1), 0, 0)) }

\* main up to and including init_simulation.
WasmInit ==
    /\ pc = "wasm_idle"
    /\ \E size \in CanvasSizes :
         /\ current_width = size[1]
         /\ current_height = size[2]
    /\ particles \in [Agents -> {p \in WasmStartParticles : p.position.x <= current_width /\ p.position.y <= current_height}]
    /\ spatial_grid = spatial_grid_create(current_width, current_height, DEPTH, (PERCEPTION_RADIUS * 3) \div 2, NUM_PARTICLES)
    /\ neighbor_buffer = [k \in 0 .. MAX_NEIGHBORS - 1 |-> 0]
    /\ leader1 = vec3_create(current_width \div 2, current_height \div 2, DEPTH \div 2)
    /\ leader2 = vec3_create(current_width \div 2, current_height \div 2, DEPTH \div 2)
    /\ leader_angle = 0
    /\ separation_time = 0
    /\ frame_counter = 0
    /\ loop_i = 0
    /\ frame_start = particles
    /\ neighbor_cache = << >>
    /\ current_frame = 0
    /\ particles_updated = 0
    /\ over_budget = FALSE
    /\ refreshed = << >>
    /\ processed = << >>
    /\ query_position = ZeroVec
    /\ query_radius = 0
    /\ neighbor_count_out = 0
    /\ wrap_input = ZeroVec

\* The variables of main.c that main_wasm.c does not have.
nativeVars == << neighbor_cache, current_frame, particles_updated, over_budget, refreshed, processed >>

\* Mutant: resize_canvas also creates the grid anew for the new extents.
ResizeCanvas_NewGrid ==
    /\ pc = "wasm_idle"
    /\ \E size \in CanvasSizes :
         /\ current_width' = size[1]
         /\ current_height' = size[2]
    /\ spatial_grid' = spatial_grid_create(current_width', current_height', DEPTH, (PERCEPTION_RADIUS * 3) \div 2, NUM_PARTICLES)
    /\ UNCHANGED << particles, neighbor_buffer, leader1, leader2, leader_angle, separation_time, pc, loop_i, frame_counter, frame_start, nativeVars, harnessVars >>

\* resize_canvas(width, height), called by the page between two frames.
ResizeCanvas ==
    /\ pc = "wasm_idle"
    /\ \E size \in CanvasSizes :
         /\ current_width' = size[1]
         /\ current_height' = size[2]
    /\ UNCHANGED << particles, spatial_grid, neighbor_buffer, leader1, leader2, leader_angle, separation_time, pc, loop_i, frame_counter, frame_start, nativeVars, harnessVars >>

\* update_simulation up to the agent loop.  The number of frames run is
\* leader_angle / LEADER_SPEED.
WasmBeginFrame ==
    /\ pc = "wasm_idle"
    /\ leader_angle < MaxFrame * LEADER_SPEED
    /\ separation_time' = separation_time + SEPARATION_OSCILLATION_SPEED
    /\ leader_angle' = leader_angle + LEADER_SPEED
    /\ leader1' = Interpolate(leader1, WasmOrbitTarget1(leader_angle', current_width, current_height))
    /\ leader2' = Interpolate(leader2, WasmOrbitTarget2(leader_angle', current_width, current_height))
    /\ spatial_grid' = spatial_grid_update(spatial_grid, particles, NUM_PARTICLES)
    /\ loop_i' = 0
    /\ pc' = "wasm_loop"
    /\ frame_start' = particles
    /\ UNCHANGED << particles, neighbor_buffer, wasmVars, nativeVars, harnessVars >>

\* Mutant: the force computation reads the buffer as the previous query left
\* it, with the count of the new query.
WasmIteration_StaleBuffer(i, parts, grid, buffer) ==
    LET res == spatial_grid_query_neighbors(grid, parts, parts[i].position, PERCEPTION_RADIUS, buffer)
        p1  == particle_flock_optimized(parts[i], i, parts, buffer, res.count, leader1, leader2, PERCEPTION_RADIUS, SeparationWeight(separation_time))
        p2  == particle_update(p1)
    IN  [buffer |-> res.buffer, count |-> res.count,
         particle |-> particle_wrap(p2, current_width, current_height, DEPTH)]

\* What one iteration of the agent loop makes of agent i: query, steer from
\* the buffer the query returned, integrate, wrap.
WasmIteration(i, parts, grid, buffer) ==
    LET res == spatial_grid_query_neighbors(grid, parts, parts[i].position, PERCEPTION_RADIUS, buffer)
        p1  == particle_flock_optimized(parts[i], i, parts, res.buffer, res.count, leader1, leader2, PERCEPTION_RADIUS, SeparationWeight(separation_time))
        p2  == particle_update(p1)
    IN  [buffer |-> res.buffer, count |-> res.count,
         particle |-> particle_wrap(p2, current_width, current_height, DEPTH)]

\* Mutant: the other agents are read from a snapshot taken when the frame
\* began.
WasmProcessAgent_FromSnapshot ==
    /\ pc = "wasm_loop"
    /\ loop_i < NUM_PARTICLES
    /\ LET it == WasmIteration(loop_i, [frame_start EXCEPT ![loop_i] = particles[loop_i]], spatial_grid, neighbor_buffer)
       IN  /\ neighbor_buffer' = it.buffer
           /\ particles' = [particles EXCEPT ![loop_i] = it.particle]
    /\ loop_i' = loop_i + 1
    /\ UNCHANGED << spatial_grid, leader1, leader2, leader_angle, separation_time, pc, frame_start, wasmVars, nativeVars, harnessVars >>

\* One iteration of the agent loop.
WasmProcessAgent ==
    /\ pc = "wasm_loop"
    /\ loop_i < NUM_PARTICLES
    /\ LET it == WasmIteration(loop_i, particles, spatial_grid, neighbor_buffer)
       IN  /\ neighbor_buffer' = it.buffer
           /\ particles' = [particles EXCEPT ![loop_i] = it.particle]
    /\ loop_i' = loop_i + 1
    /\ UNCHANGED << spatial_grid, leader1, leader2, leader_angle, separation_time, pc, frame_start, wasmVars, nativeVars, harnessVars >>

\* After the loop: frame_counter++ and the depth sort when it is due.
WasmEndFrame ==
    /\ pc = "wasm_loop"
    /\ loop_i >= NUM_PARTICLES
    /\ IF frame_counter + 1 >= SORT_EVERY_N_FRAMES
       THEN /\ particles' \in SortedByZ(particles)
            /\ frame_counter' = 0
       ELSE /\ particles' = particles
            /\ frame_counter' = frame_counter + 1
    /\ pc' = "wasm_idle"
    /\ UNCHANGED << spatial_grid, neighbor_buffer, leader1, leader2, leader_angle, separation_time, loop_i, current_width, current_height, frame_start, nativeVars, harnessVars >>

WasmNext == ResizeCanvas \/ WasmBeginFrame \/ WasmProcessAgent \/ WasmEndFrame

WasmSpec == WasmInit /\ [][WasmNext]_vars

\* The fields of the grid that spatial_grid_create computes from the extents.
GridShape(grid) == << grid.grid_width, grid.grid_height, grid.grid_depth, grid.cell_size, grid.total_cells >>

\* C29: a step that changes current_width or current_height (a call of
\* resize_canvas) changes nothing else: the agents and the whole spatial grid
\* stay as they are; grid_width, grid_height, grid_depth, cell_size and
\* total_cells never change after creation, where they were computed from the
\* extents of that moment; and the extents set are the ones the wrap of the
\* following iterations uses.
C29_ResizeFrameEffect ==
    /\ GridShape(spatial_grid) = GridShape(spatial_grid_create(current_width, current_height, DEPTH, (PERCEPTION_RADIUS * 3) \div 2, NUM_PARTICLES))
    /\ [][GridShape(spatial_grid') = GridShape(spatial_grid)]_vars
    /\ [][(current_width' # current_width \/ current_height' # current_height) =>
            /\ particles' = particles
            /\ ToString(spatial_grid') = ToString(spatial_grid)
            /\ UNCHANGED << neighbor_buffer, leader1, leader2, leader_angle, separation_time, pc, loop_i, frame_counter, frame_start, nativeVars, harnessVars >>]_vars
    /\ [][(pc = "wasm_loop" /\ loop_i' = loop_i + 1) =>
            /\ particles'[loop_i].position.x \in 0 .. current_width
            /\ particles'[loop_i].position.y \in 0 .. current_height]_vars

\* A frame has run in full after the canvas shrank: the grid still has the
\* shape of the canvas it was created for, and an agent that was beyond the
\* new width has been wrapped to 0.
C29_Witness ==
    /\ pc = "wasm_loop"
    /\ loop_i = NUM_PARTICLES
    /\ current_width = Units(400)
    /\ spatial_grid.grid_width = CeilDiv(WIDTH, (PERCEPTION_RADIUS * 3) \div 2)
    /\ \E i \in Agents : frame_start[i].position.x > current_width /\ particles[i].position.x = 0

\* The two frame loops side by side: a behaviour is one of main.c or one of
\* main_wasm.c.
LoopsInit == Init \/ WasmInit

LoopsNext == Next \/ WasmNext

LoopsSpec == LoopsInit /\ [][LoopsNext]_vars

\* The result of the query that the iteration of agent i issues in this state.
QueryOf(i) ==
    spatial_grid_query_neighbors(spatial_grid, particles, particles[i].position, PERCEPTION_RADIUS, neighbor_buffer)

\* buffer[0 .. count - 1] of two results are the same list.
SameList(bufA, cntA, bufB, cntB) ==
    /\ cntA = cntB
    /\ \A k \in 0 .. cntA - 1 : bufA[k] = bufB[k]

\* The step is an iteration of the agent loop of main.c, of main_wasm.c.
NativeIterationStep == pc = "loop" /\ loop_i' = loop_i + 1

WasmIterationStep == pc = "wasm_loop" /\ loop_i' = loop_i + 1

\* The agent steered from the list (list, count), integrated and wrapped.
Steered(i, list, count, width, height) ==
    particle_wrap(particle_update(particle_flock_optimized(particles[i], i, particles, list, count, leader1, leader2, PERCEPTION_RADIUS, SeparationWeight(separation_time))),
                  width, height, DEPTH)

\* C23: the static buffer of the query is consumed before the next query is
\* issued.  In main.c an iteration that refreshes copies the result of the
\* query it has just issued into the agent's cache entry, an iteration that
\* does not refresh touches neither buffer nor cache, the force computation
\* reads the agent's own entry, and an entry changes only in a refreshing
\* iteration of its own agent.  In main_wasm.c the force computation of an
\* iteration reads the result of the query issued in the same iteration.
C23_ConsumeBeforeNextQuery ==
    /\ [][NativeIterationStep =>
            LET i == loop_i
                q == QueryOf(i)
            IN  /\ IF current_frame \in refreshed'[i] \ refreshed[i]
                   THEN /\ neighbor_buffer' = q.buffer
                        /\ SameList(neighbor_cache'[i].neighbors, neighbor_cache'[i].count, q.buffer, q.count)
                   ELSE /\ neighbor_buffer' = neighbor_buffer
                        /\ neighbor_cache'[i] = neighbor_cache[i]
                /\ particles'[i] = Steered(i, neighbor_cache'[i].neighbors, neighbor_cache'[i].count, WIDTH, HEIGHT)]_vars
    /\ [][\A j \in DOMAIN neighbor_cache :
            neighbor_cache'[j] # neighbor_cache[j] =>
                /\ NativeIterationStep
                /\ j = loop_i
                /\ current_frame \in refreshed'[j] \ refreshed[j]]_vars
    /\ [][WasmIterationStep =>
            LET i == loop_i
                q == QueryOf(i)
            IN  /\ neighbor_buffer' = q.buffer
                /\ particles'[i] = Steered(i, q.buffer, q.count, current_width, current_height)]_vars

\* In main.c a later query has overwritten the buffer, and the entry of an
\* agent refreshed earlier in the frame still lists what its own query found.
C23_Witness ==
    /\ pc = "loop"
    /\ \E i \in 0 .. loop_i - 1 :
         /\ current_frame \in refreshed[i]
         /\ neighbor_cache[i].count >= 2
         /\ neighbor_cache[i].neighbors[0] # neighbor_buffer[0]
         /\ SameList(neighbor_cache[i].neighbors, neighbor_cache[i].count,
                     spatial_grid_query_neighbors(spatial_grid, frame_start, frame_start[i].position, PERCEPTION_RADIUS, neighbor_buffer).buffer,
                     neighbor_cache[i].count)

\* Agent i steered from the list (list, count) with the other agents read
\* from the array parts, then integrated and wrapped.
SteeredFrom(parts, i, list, count, width, height) ==
    particle_wrap(particle_update(particle_flock_optimized(parts[i], i, parts, list, count, leader1, leader2, PERCEPTION_RADIUS, SeparationWeight(separation_time))),
                  width, height, DEPTH)

\* The agent loop is under way.
InAgentLoop == pc \in {"loop", "broke", "wasm_loop"}

\* C30: within a frame the agents are processed one at a time in ascending
\* index order and in place.  While the loop is at index loop_i, every agent
\* from loop_i on is as it was when the frame began and every agent below has
\* been processed in this frame; an iteration changes the one agent loop_i and
\* moves on to loop_i + 1; and its query and its force computation read the
\* agent array as it is at that moment, with the agents below loop_i already
\* moved, not as it was when the frame began.  (The depth sort of
\* main_wasm.c comes after the loop and ends the frame.)
C30_InPlaceSequentialUpdate ==
    /\ [](InAgentLoop =>
            /\ \A j \in Agents : j >= loop_i => particles[j] = frame_start[j]
            /\ pc # "wasm_loop" => \A j \in Agents : j < loop_i <=> current_frame \in processed[j])
    /\ [][InAgentLoop /\ pc' = pc /\ particles' # particles =>
            /\ loop_i' = loop_i + 1
            /\ \A j \in Agents \ {loop_i} : particles'[j] = particles[j]]_vars
    /\ [][NativeIterationStep =>
            /\ current_frame \in refreshed'[loop_i] \ refreshed[loop_i] =>
                  SameList(neighbor_cache'[loop_i].neighbors, neighbor_cache'[loop_i].count, QueryOf(loop_i).buffer, QueryOf(loop_i).count)
            /\ particles'[loop_i] = SteeredFrom(particles, loop_i, neighbor_cache'[loop_i].neighbors, neighbor_cache'[loop_i].count, WIDTH, HEIGHT)]_vars
    /\ [][WasmIterationStep =>
            particles'[loop_i] = SteeredFrom(particles, loop_i, QueryOf(loop_i).buffer, QueryOf(loop_i).count, current_width, current_height)]_vars

\* The loop of main_wasm.c is about to process agent 1; agent 0 has moved in
\* this frame, is in range of agent 1, and agent 1's new state differs from
\* the one the array of the frame's beginning would give.
C30_Witness ==
    /\ pc = "wasm_loop"
    /\ loop_i = 1
    /\ particles[0] # frame_start[0]
    /\ LET q == QueryOf(1)
       IN  /\ \E k \in 0 .. q.count - 1 : q.buffer[k] = 0
           /\ SteeredFrom(particles, 1, q.buffer, q.count, current_width, current_height)
                # SteeredFrom(frame_start, 1, q.buffer, q.count, current_width, current_height)

(***************************************************************************)
(* main.c against main_wasm.c.  The native loop is taken with               *)
(* CACHE_NEIGHBORS_FRAMES = 1 and UPDATE_GRID_EVERY_N_FRAMES = 1 and        *)
(* without a budget break: i % 1 = current_frame % 1, so every iteration    *)
(* refreshes, and the grid is rebuilt every frame.  Its iteration is        *)
(* computed from the state of the WebAssembly loop at the same point, which *)
(* is the state the native loop is in as long as the two have agreed; only  *)
(* the native grid is not in that state, and it is built here from the      *)
(* agent array of the frame's beginning.  Slots of particle_indices outside *)
(* all runs may differ from those of a grid kept over frames; no query      *)
(* reads them.                                                              *)
(***************************************************************************)
\* The grid of the native loop in this frame, created with the cell size given.
NativeGrid(cell_size) ==
    spatial_grid_update(spatial_grid_create(WIDTH, HEIGHT, DEPTH, cell_size, NUM_PARTICLES), frame_start, NUM_PARTICLES)

\* The cache entry of agent i after the refresh of its iteration.
NativeEntry(i, cell_size) ==
    RefreshedEntry(ClearedEntry,
                   spatial_grid_query_neighbors(NativeGrid(cell_size), particles, particles[i].position, PERCEPTION_RADIUS, neighbor_buffer),
                   0)

\* The WebAssembly loop runs on the extents of the native loop, and its grid
\* was created for them.
EqualInputs ==
    /\ current_width = WIDTH
    /\ current_height = HEIGHT
    /\ GridShape(spatial_grid) = GridShape(spatial_grid_create(WIDTH, HEIGHT, DEPTH, (PERCEPTION_RADIUS * 3) \div 2, NUM_PARTICLES))

\* From a common state the iteration of agent loop_i gives, in the native
\* loop with its grid of the cell size given, the neighbour list and the
\* agent state that the step of the WebAssembly loop gives.
IterationsAgree(cell_size) ==
    LET i == loop_i
        e == NativeEntry(i, cell_size)
        q == QueryOf(i)
    IN  /\ SameList(e.neighbors, e.count, q.buffer, q.count)
        /\ particles'[i] = SteeredFrom(particles, i, e.neighbors, e.count, WIDTH, HEIGHT)

\* From a common state the part of update_simulation before the agent loop
\* moves the leaders and the oscillation alike in both loops.
FrameBeginsAgree ==
    /\ leader_angle' = leader_angle + LEADER_SPEED
    /\ separation_time' = separation_time + SEPARATION_OSCILLATION_SPEED
    /\ leader1' = Interpolate(leader1, OrbitTarget1(leader_angle'))
    /\ leader2' = Interpolate(leader2, OrbitTarget2(leader_angle'))
    /\ particles' = particles

====
